---- MODULE Spec2Model ----
(***************************************************************************)
(* The client session engine of tacacs-plus: the mutex-guarded ClientInner *)
(* (connection, first_session_completed, single_connection_established),   *)
(* the sessions authenticate / authorize / accounting start, update, stop  *)
(* that drive it, and the byte stream and server they talk to.             *)
(*                                                                         *)
(* A session is an async fn: it can only be interleaved with other handles *)
(* or dropped at an .await, so every action runs from one suspension point *)
(* to the next.                                                            *)
(***************************************************************************)
EXTENDS Integers, FiniteSets, Sequences, TLC

(* ------------------------------ bounds -------------------------------- *)
\* handles (clones) of the one Client
NumHandles == 2
\* sessions run over the life of the client
MaxSessions == 2
\* connections the factory hands out
MaxConns == 3
\* replies the server may have sent on a connection that are still unread
MaxInbox == 1

Procs == 1 .. NumHandles
Conns == 1 .. MaxConns

(* --------------------------- protocol values --------------------------- *)
\* sequence numbers the server may put in a reply header
ReplySeqs == {2, 3, 4}

\* authenticate (PAP or CHAP), authorize, and AccountingTask::make_request
\* (behind account_begin, update and stop)
ApiCalls == {"authenticate", "authorize", "make_request"}

Family(k) ==
    IF k = "authenticate" THEN "authentication"
    ELSE IF k = "authorize" THEN "authorization"
    ELSE "accounting"

AuthenticationStatus ==
    {"Pass", "Fail", "GetData", "GetUser", "GetPassword", "Restart", "Error", "Follow"}
AuthorizationStatus == {"PassAdd", "PassReplace", "Fail", "Error", "Follow"}
AccountingStatus == {"Success", "Error", "Follow"}

Statuses(f) ==
    IF f = "authentication" THEN AuthenticationStatus
    ELSE IF f = "authorization" THEN AuthorizationStatus
    ELSE AccountingStatus

VARIABLES
    mutex,                           \* Client.inner: 0 = free, else the guard's holder
    connection,                      \* ClientInner.connection: 0 = None
    first_session_completed,         \* ClientInner.first_session_completed
    single_connection_established,   \* ClientInner.single_connection_established
    pc,                              \* where each handle's session future is
    sess,                            \* the locals of each handle's session
    wire,                            \* per connection: what the server holds and sent
    live,                            \* connections made by the factory, not dropped
    nextConn,                        \* next connection the factory will make
    started,                         \* sessions that got the mutex so far
    prev,                            \* summary of the session that last held the mutex
    merge,                           \* authorize's argument merge: inputs and result
    codec,                           \* a packet, its serialization and what is read back
    argument,                        \* an Argument a caller holds, and the last error
    tasks,                           \* the AccountingTask of each account_begin call
    records,                         \* the accounting records written for each task, in order
    request,                         \* a call's request packet, built and serialized
    pad,                             \* a body, obfuscated once and twice
    truncated,                       \* a packet of a header alone, and what is read from it
    encoding                         \* an Argument or received bytes, encoded and decoded

\* the session engine and what it talks to
engine == <<mutex, connection, first_session_completed,
            single_connection_established, pc, sess, wire, live,
            nextConn, started, prev>>

\* the library functions that are specified on their own, apart from the engine
apart == <<merge, codec, argument, tasks, records, request, pad, truncated,
           encoding>>

vars == <<engine, apart>>

inner == <<connection, first_session_completed, single_connection_established>>

Positions ==
    {"idle", "lock", "sp_factory", "probe", "sp_cleanup", "sp_closing",
     "snd_factory", "write", "flush", "rcv_factory", "read_header", "read_body",
     "set_status", "cleanup", "closing", "return"}

NoReply == [family |-> "none", status |-> "none", seq |-> 0, single |-> FALSE,
            ok |-> FALSE, sid |-> 0]

\* kind: the API call; sid: its session id; probe/probed: what the liveness
\* probe answered and on which connection; fcalls/reconnects: factory
\* invocations of the session, in all and after the probe; wroteOn/readOn: the
\* connection write_all / read_exact was called on; got: the packet read off
\* the stream; reply: the packet receive_packet returned Ok; local: the
\* connection held by post_session_cleanup's local variable; result: what the
\* call returned; at: where the future ended; start*: ClientInner at lock time
NoSess == [kind |-> "none", sid |-> 0, probe |-> "none", probed |-> 0,
           fcalls |-> 0, reconnects |-> 0, wroteOn |-> 0, readOn |-> 0,
           got |-> NoReply, reply |-> NoReply, local |-> 0, result |-> "none",
           at |-> "none", startConn |-> 0, startEst |-> FALSE, startFsc |-> FALSE]

\* out: requests written that the server has not answered; inbox: packets the
\* server sent that nobody has read; completed: sessions that ran to the end
\* of their cleanup on the connection and left it in place
NoWire == [out |-> <<>>, inbox |-> <<>>, peerClosed |-> FALSE, completed |-> 0]

\* what is remembered of the session that last held the mutex: how it ended
\* (every response and status error is "Responded"), whether it had begun to
\* write, the connection it left in ClientInner and the one it wrote on, its
\* factory invocations, whether it started on a new client (no connection,
\* both flags false), whether its probe pended, and of the reply it accepted
\* whether the status was Error and whether SINGLE_CONNECTION was set, and
\* whether it ended on an Err of the connection factory
Summary(s, conn) ==
    [result |-> IF s.result \in {"IOError", "InvalidPacketReceived",
                                 "SequenceNumberMismatch", "Cancelled", "Panicked",
                                 "none"}
                THEN s.result ELSE "Responded",
     writeBegun |-> s.wroteOn # 0 \/ s.at = "write",
     conn |-> conn, wroteOn |-> s.wroteOn, fcalls |-> s.fcalls,
     fresh |-> s.startConn = 0 /\ ~s.startEst /\ ~s.startFsc,
     pended |-> s.probe = "pending",
     replied |-> IF s.reply = NoReply THEN "none"
                 ELSE IF s.reply.status = "Error" THEN "error" ELSE "other",
     single |-> s.reply.single,
     factoryFailed |-> s.result = "IOError"
                       /\ s.at \in {"sp_factory", "snd_factory", "rcv_factory"}]

NoPrev == Summary(NoSess, 0)

TypeOK ==
    /\ mutex \in 0 .. NumHandles
    /\ connection \in 0 .. MaxConns
    /\ first_session_completed \in BOOLEAN
    /\ single_connection_established \in BOOLEAN
    /\ pc \in [Procs -> Positions]
    /\ live \subseteq Conns
    /\ nextConn \in 1 .. MaxConns + 1
    /\ started \in 0 .. MaxSessions
    /\ \A c \in Conns : /\ wire[c].completed \in 0 .. MaxSessions
                        /\ Len(wire[c].inbox) <= MaxInbox
                        /\ wire[c].peerClosed \in BOOLEAN
    /\ \A p \in Procs : /\ sess[p].kind \in ApiCalls \cup {"none"}
                        /\ sess[p].sid \in 0 .. MaxSessions
                        /\ sess[p].wroteOn \in 0 .. MaxConns
                        /\ sess[p].local \in 0 .. MaxConns

\* no call of the functions specified apart from the engine has been made
NoMerge == [status |-> "none", sent |-> <<>>, received |-> <<>>,
            returned |-> "none", merged |-> <<>>]

NoHeader == [minor |-> 0, sequence_number |-> 0, unencrypted |-> FALSE,
             single_connection |-> FALSE, session_id |-> 0]

NoBody == [type |-> "none", authentication_type |-> "none", bytes |-> <<>>]

NoWritten == [result |-> "none", length |-> 0, buffer |-> <<>>]

NoRead == [result |-> "none", header |-> NoHeader, body |-> NoBody]

NoCodec == [packet |-> [header |-> NoHeader, body |-> NoBody],
            secret |-> [some |-> FALSE, key |-> <<>>], space |-> 0,
            key |-> [some |-> FALSE, key |-> <<>>], expects |-> "none",
            written |-> NoWritten, read |-> NoRead]

NoArgument == [some |-> FALSE, name |-> [len |-> 0, delimiter |-> FALSE],
               value |-> 0, mandatory |-> FALSE, error |-> "none"]

NoRequest == [kind |-> "none", secret |-> [some |-> FALSE, key |-> <<>>],
              session_id |-> 0, bytes |-> <<>>, written |-> NoWritten]

\* accounting tasks a client may begin
MaxTasks == 2

NoTask == [state |-> "none", id |-> 0, updates |-> 0, inflight |-> 0]

NoTasks == [t \in 1 .. MaxTasks |-> NoTask]

NoRecords == [t \in 1 .. MaxTasks |-> <<>>]

\* xor_body_with_pad applied to nothing yet
NoXored == [result |-> "none", buffer |-> <<>>]

NoPad == [header |-> NoHeader, key |-> <<>>, body |-> <<>>, once |-> NoXored,
          twice |-> NoXored]

NoTruncated == [header |-> NoHeader, packet_type |-> "none", body_length |-> 0,
                key |-> <<>>, expects |-> "none", obfuscated |-> NoRead,
                unobfuscated |-> NoRead]

\* an Argument with its fields as bytes
NoArgumentBytes == [name |-> <<>>, value |-> <<>>, mandatory |-> FALSE]

NoDecoded == [result |-> "none", argument |-> NoArgumentBytes]

NoEncoding == [some |-> FALSE, argument |-> NoArgumentBytes, buffer |-> <<>>,
               written |-> "none", decoded |-> NoDecoded]

ApartIdle ==
    /\ merge = NoMerge
    /\ codec = NoCodec
    /\ argument = NoArgument
    /\ tasks = NoTasks
    /\ records = NoRecords
    /\ request = NoRequest
    /\ pad = NoPad
    /\ truncated = NoTruncated
    /\ encoding = NoEncoding

\* ClientInner::new behind Client::new
InitEngine ==
    /\ mutex = 0
    /\ connection = 0
    /\ first_session_completed = FALSE
    /\ single_connection_established = FALSE
    /\ pc = [p \in Procs |-> "idle"]
    /\ sess = [p \in Procs |-> NoSess]
    /\ wire = [c \in Conns |-> NoWire]
    /\ live = {}
    /\ nextConn = 1
    /\ started = 0
    /\ prev = NoPrev

Init == InitEngine /\ ApartIdle

(* ----------------------- status mapping (response.rs) ------------------ *)
\* a mapping that has no arm for Restart
AuthenticationTryFromWithoutRestart(s) ==
    CASE s = "Pass" -> "Success"
      [] s = "Fail" -> "Failure"
      [] s = "Follow" -> "Failure"
      [] OTHER -> "Bad"

AuthenticationTryFrom(s) ==
    CASE s = "Pass" -> "Success"
      [] s = "Fail" -> "Failure"
      [] s = "Follow" -> "Failure"
      [] s = "Restart" -> "Failure"
      [] OTHER -> "Bad"

AuthorizationTryFrom(s) ==
    CASE s \in {"PassAdd", "PassReplace"} -> "Success"
      [] s = "Fail" -> "Failure"
      [] s = "Follow" -> "Failure"
      [] OTHER -> "Bad"

\* the match on the reply status that ends authenticate, authorize and
\* AccountingTask::make_request
Respond(k, s) ==
    IF Family(k) = "authentication"
    THEN IF AuthenticationTryFrom(s) = "Bad" THEN "AuthenticationError"
         ELSE AuthenticationTryFrom(s)
    ELSE IF Family(k) = "authorization"
    THEN IF AuthorizationTryFrom(s) = "Bad" THEN "AuthorizationError"
         ELSE AuthorizationTryFrom(s)
    ELSE IF s = "Success" THEN "AccountingResponse" ELSE "AccountingError"

\* the status_is_error argument each session passes to post_session_cleanup
StatusIsError(s) == s = "Error"

(* ------------------------------ requests ------------------------------- *)
\* the sequence number every session passes to make_header
RequestSeq == 1

\* make_header: the header fields the engine and the server act on
MakeHeader(sequence_number, session_id) ==
    [seq |-> sequence_number, sid |-> session_id, single |-> TRUE]

\* the request packet of a session, as far as the server's answer depends on it
RequestPacket(session_id) == [hdr |-> MakeHeader(RequestSeq, session_id)]

(* --------------------------- session plumbing -------------------------- *)
\* positions at which a session future is suspended in an .await and can
\* therefore be dropped by its caller
SuspensionPoints ==
    {"lock", "sp_factory", "snd_factory", "rcv_factory", "write", "flush",
     "read_header", "read_body", "sp_closing", "closing"}

\* from the liveness probe and request write up to the post-session cleanup
InFlight(p) ==
    pc[p] \in {"sp_factory", "probe", "sp_cleanup", "sp_closing", "snd_factory",
               "write", "flush", "rcv_factory", "read_header", "read_body",
               "set_status", "cleanup", "closing"}

\* the call on handle p is over with res: it returned, through `?` or at its
\* end, or its future was dropped. s: its locals
End(p, s, res) ==
    /\ pc' = [pc EXCEPT ![p] = "return"]
    /\ sess' = [sess EXCEPT ![p] = [s EXCEPT !.result = res, !.at = pc[p]]]

\* the session goes on to position next with locals s
Goto(p, s, next) ==
    /\ pc' = [pc EXCEPT ![p] = next]
    /\ sess' = [sess EXCEPT ![p] = s]

\* a connection() that does not ask the factory again once it has failed
ConnectionWithoutRetry(s, conn, wait, next) ==
    IF conn = 0 /\ ~prev.factoryFailed
    THEN [s |-> [s EXCEPT !.fcalls = @ + 1], pc |-> wait]
    ELSE [s |-> s, pc |-> next]

\* a connection() that asks the factory only before the probe
ConnectionOnlyBeforeProbe(s, conn, wait, next) ==
    IF conn = 0 /\ s.probe = "none"
    THEN [s |-> [s EXCEPT !.fcalls = @ + 1], pc |-> wait]
    ELSE [s |-> s, pc |-> next]

\* ClientInner::connection up to its first .await: with a connection held it
\* returns at once (position next), without one it invokes the factory and
\* awaits its future (position wait). Gives the locals and the position.
Connection(s, conn, wait, next) ==
    IF conn = 0
    THEN [s |-> [s EXCEPT !.fcalls = @ + 1,
                          !.reconnects = IF s.probe = "none" THEN @ ELSE @ + 1],
          pc |-> wait]
    ELSE [s |-> s, pc |-> next]

\* a lock that hands out a guard whenever asked
MutexFreeAlways == TRUE

\* inner.lock() hands out the guard only while no other guard exists
MutexFree == mutex = 0

(* ------------------------------- sessions ------------------------------ *)
\* authenticate / authorize / an accounting call is made on handle p: the
\* request packet is built, then the future waits for the mutex
Call(p, k) ==
    /\ pc[p] = "idle"
    /\ started + Cardinality({q \in Procs : pc[q] = "lock"}) < MaxSessions
    /\ Goto(p, [NoSess EXCEPT !.kind = k], "lock")
    /\ UNCHANGED <<mutex, inner, wire, live, nextConn, started, prev>>
    /\ UNCHANGED apart

\* self.inner.lock().await returns the guard; send_packet starts with
\* self.connection()
Lock(p) ==
    /\ pc[p] = "lock"
    /\ MutexFree
    /\ mutex' = p
    /\ started' = started + 1
    /\ LET s == [sess[p] EXCEPT !.sid = started + 1,
                                !.startConn = connection,
                                !.startEst = single_connection_established,
                                !.startFsc = first_session_completed]
           r == Connection(s, connection, "sp_factory", "probe")
       IN  Goto(p, r.s, r.pc)
    /\ UNCHANGED <<inner, wire, live, nextConn, prev>>
    /\ UNCHANGED apart

\* a connection that stays open when its owner lets go of it
DroppedNever(c) == live

\* what becomes of the live connections when c is dropped
Dropped(c) == live \ {c}

\* the factory's future completes: Ok(new_conn) is stored in self.connection
\* (a value it replaces is dropped), Err(e) is returned through every `?`
FactoryReturn(p, ok) ==
    /\ pc[p] \in {"sp_factory", "snd_factory", "rcv_factory"}
    /\ IF ok
       THEN /\ nextConn <= MaxConns
            /\ connection' = nextConn
            /\ nextConn' = nextConn + 1
            /\ live' = Dropped(connection) \cup {nextConn}
            /\ wire' = [c \in Conns |->
                          IF c = connection THEN NoWire ELSE wire[c]]
            /\ Goto(p, sess[p], CASE pc[p] = "sp_factory" -> "probe"
                                  [] pc[p] = "snd_factory" -> "write"
                                  [] pc[p] = "rcv_factory" -> "read_header")
            /\ UNCHANGED <<first_session_completed, single_connection_established>>
       ELSE /\ End(p, sess[p], "IOError")
            /\ UNCHANGED <<inner, wire, live, nextConn>>
    /\ UNCHANGED <<mutex, started, prev>>
    /\ UNCHANGED apart

\* what a single poll of connection.read(&mut [0]) can answer on connection c:
\* a byte the server sent and nobody read, EOF or a reset once the peer has
\* closed, any other I/O error, or Pending
ProbeAnswers(c) ==
    IF wire[c].inbox # <<>> THEN {"data", "error"}
    ELSE IF wire[c].peerClosed THEN {"eof", "reset", "error"}
    ELSE {"pending", "error"}

\* a probe that takes Pending for a closed connection
IsConnectionOpenUnlessPending(answer) == answer = "data"

\* is_connection_open
IsConnectionOpen(answer) == answer \in {"pending", "data"}

\* a packet of which the stream has lost leading bytes no longer parses
Garbled(e) == [e EXCEPT !.garbled = TRUE]

\* send_packet after connection(): the probe; a closed connection goes to
\* post_session_cleanup(true), an open one to _send_packet, whose connection()
\* finds the connection held and whose write_all is awaited
Probe(p, answer) ==
    /\ pc[p] = "probe"
    /\ connection # 0
    /\ answer \in ProbeAnswers(connection)
    /\ LET s == [sess[p] EXCEPT !.probe = answer, !.probed = connection]
       IN  IF answer = "error"
           THEN /\ End(p, s, "IOError")
                /\ UNCHANGED wire
           ELSE /\ Goto(p, s, IF IsConnectionOpen(answer) THEN "write" ELSE "sp_cleanup")
                /\ wire' = IF answer = "data"
                           THEN [wire EXCEPT ![connection].inbox =
                                    <<Garbled(Head(@))>> \o Tail(@)]
                           ELSE wire
    /\ UNCHANGED <<mutex, inner, live, nextConn, started, prev>>
    /\ UNCHANGED apart

\* a cleanup that closes the connection on an error status only
ClosesConnectionOnErrorOnly(status_is_error) == status_is_error

\* the condition of post_session_cleanup's close branch
ClosesConnection(status_is_error) ==
    ~single_connection_established \/ status_is_error

\* post_session_cleanup up to its .await (or to its end): the connection is
\* taken out of self.connection to be closed, or the first session on a kept
\* connection is recorded. Called by send_packet with true and by the session
\* with the reply's status; the session then drops the guard and matches on
\* the status.
PostSessionCleanup(p) ==
    /\ pc[p] \in {"sp_cleanup", "cleanup"}
    /\ LET status_is_error ==
               \/ pc[p] = "sp_cleanup"
               \/ StatusIsError(sess[p].reply.status)
       IN  IF ClosesConnection(status_is_error)
           THEN /\ connection' = 0
                /\ UNCHANGED <<first_session_completed, single_connection_established>>
                /\ IF connection = 0
                   THEN End(p, sess[p], "Panicked")
                   ELSE Goto(p, [sess[p] EXCEPT !.local = connection],
                             IF pc[p] = "sp_cleanup" THEN "sp_closing" ELSE "closing")
                /\ UNCHANGED wire
           ELSE /\ first_session_completed' = TRUE
                /\ UNCHANGED <<connection, single_connection_established>>
                /\ wire' = IF connection = 0 THEN wire
                           ELSE [wire EXCEPT ![connection].completed = @ + 1]
                /\ End(p, sess[p], Respond(sess[p].kind, sess[p].reply.status))
    /\ UNCHANGED <<mutex, live, nextConn, started, prev>>
    /\ UNCHANGED apart

\* connection.close().await returns in post_session_cleanup: the local
\* connection is dropped either way; Ok(()) resets the flags and returns to the
\* caller (send_packet goes on to _send_packet, the session to its status
\* match), Err(e) leaves through `?`
CloseReturn(p, ok) ==
    /\ pc[p] \in {"sp_closing", "closing"}
    /\ live' = Dropped(sess[p].local)
    /\ wire' = [wire EXCEPT ![sess[p].local] = NoWire]
    /\ LET s == [sess[p] EXCEPT !.local = 0]
       IN  IF ok
           THEN /\ single_connection_established' = FALSE
                /\ first_session_completed' = FALSE
                /\ IF pc[p] = "sp_closing"
                   THEN LET r == Connection(s, connection, "snd_factory", "write")
                        IN  Goto(p, r.s, r.pc)
                   ELSE End(p, s, Respond(s.kind, s.reply.status))
           ELSE /\ UNCHANGED <<first_session_completed, single_connection_established>>
                /\ End(p, s, "IOError")
    /\ UNCHANGED <<mutex, connection, nextConn, started, prev>>
    /\ UNCHANGED apart

\* _send_packet: connection.write_all(&packet_buffer).await returns
WriteAll(p, ok) ==
    /\ pc[p] = "write"
    /\ connection # 0
    /\ LET s == [sess[p] EXCEPT !.wroteOn = connection]
       IN  IF ok
           THEN /\ wire' = [wire EXCEPT ![connection].out =
                               Append(@, RequestPacket(s.sid))]
                /\ Goto(p, s, "flush")
           ELSE /\ UNCHANGED wire
                /\ End(p, s, "IOError")
    /\ UNCHANGED <<mutex, inner, live, nextConn, started, prev>>
    /\ UNCHANGED apart

\* _send_packet: connection.flush().await returns; after Ok the session calls
\* receive_packet, which starts with self.connection() and awaits read_exact
Flush(p, ok) ==
    /\ pc[p] = "flush"
    /\ IF ok
       THEN LET r == Connection(sess[p], connection, "rcv_factory", "read_header")
            IN  Goto(p, r.s, r.pc)
       ELSE End(p, sess[p], "IOError")
    /\ UNCHANGED <<mutex, inner, wire, live, nextConn, started, prev>>
    /\ UNCHANGED apart

\* receive_packet: read_exact of the 12 header bytes returns: Ok once the
\* server has sent a packet, UnexpectedEof once the peer has closed
ReadHeader(p) ==
    /\ pc[p] = "read_header"
    /\ connection # 0
    /\ LET s == [sess[p] EXCEPT !.readOn = connection]
       IN  IF wire[connection].inbox # <<>>
           THEN Goto(p, s, "read_body")
           ELSE /\ wire[connection].peerClosed
                /\ End(p, s, "IOError")
    /\ UNCHANGED <<mutex, inner, wire, live, nextConn, started, prev>>
    /\ UNCHANGED apart

\* the sequence number the sessions pass to receive_packet
ExpectedSeq == 2

\* Packet::deserialize / deserialize_unobfuscated as Packet<B>: the bytes must
\* parse, and as a body of the session's own family
Deserializes(r, k) == r.ok /\ r.family = Family(k)

\* a verdict that does not compare the sequence number
ReceiveVerdictWithoutSequence(r, k) ==
    IF ~Deserializes(r, k) THEN "InvalidPacketReceived" ELSE "Ok"

\* receive_packet's verdict on the packet read
ReceiveVerdict(r, k) ==
    IF ~Deserializes(r, k) THEN "InvalidPacketReceived"
    ELSE IF r.seq # ExpectedSeq THEN "SequenceNumberMismatch"
    ELSE "Ok"

\* the status that stands for all of them in a reply with a wrong sequence
\* number
AnyStatus(f) == CHOOSE st \in Statuses(f) : st # "Error"

\* the bytes an unread packet e of the stream can turn out to hold when a
\* session of kind k reads it: bytes that do not parse as a reply of k's family
\* (all that is left of a packet that lost leading bytes), or a well-formed
\* reply of that family, with any status and flag under sequence number 2 and
\* with SINGLE_CONNECTION set under the other sequence numbers
Packets(e, k) ==
    [family : {"none"}, status : {"none"}, seq : ReplySeqs,
     single : {FALSE}, ok : {FALSE}, sid : {e.sid}]
    \cup
    IF e.garbled THEN {}
    ELSE [family : {Family(k)}, status : Statuses(Family(k)), seq : {2},
          single : BOOLEAN, ok : {TRUE}, sid : {e.sid}]
         \cup
         [family : {Family(k)}, status : {AnyStatus(Family(k))},
          seq : ReplySeqs \ {2}, single : {TRUE}, ok : {TRUE}, sid : {e.sid}]

\* receive_packet: read_exact of the body returns, the packet r is
\* deserialized and its sequence number compared
ReceivePacket(p, r) ==
    /\ pc[p] = "read_body"
    /\ connection # 0
    /\ wire[connection].inbox # <<>>
    /\ r \in Packets(Head(wire[connection].inbox), sess[p].kind)
    /\ wire' = [wire EXCEPT ![connection].inbox = Tail(@)]
    /\ LET s == [sess[p] EXCEPT !.got = r]
       IN  IF ReceiveVerdict(r, s.kind) = "Ok"
           THEN Goto(p, [s EXCEPT !.reply = r], "set_status")
           ELSE End(p, s, ReceiveVerdict(r, s.kind))
    /\ UNCHANGED <<mutex, inner, live, nextConn, started, prev>>
    /\ UNCHANGED apart

\* a condition that does not look at the SINGLE_CONNECTION flag
EstablishesWithoutFlag(hdr) == ~first_session_completed /\ hdr.seq = 2

\* the condition under which set_internal_single_connect_status marks
\* single-connection mode established
Establishes(hdr) == ~first_session_completed /\ hdr.seq = 2 /\ hdr.single

SetInternalSingleConnectStatus(p) ==
    /\ pc[p] = "set_status"
    /\ single_connection_established' =
           IF Establishes(sess[p].reply) THEN TRUE ELSE single_connection_established
    /\ Goto(p, sess[p], "cleanup")
    /\ UNCHANGED <<mutex, connection, first_session_completed, wire, live,
                   nextConn, started, prev>>
    /\ UNCHANGED apart

\* the caller drops the session future at an .await: its locals are dropped
\* with it; header bytes already read are gone from the stream. A future still
\* waiting for the mutex leaves nothing behind.
Cancel(p) ==
    /\ pc[p] \in SuspensionPoints
    /\ live' = IF pc[p] \in {"sp_closing", "closing"} THEN Dropped(sess[p].local) ELSE live
    /\ wire' = IF pc[p] \in {"sp_closing", "closing"}
               THEN [wire EXCEPT ![sess[p].local] = NoWire]
               ELSE IF pc[p] = "read_body" /\ connection # 0
                       /\ wire[connection].inbox # <<>>
               THEN [wire EXCEPT ![connection].inbox = <<Garbled(Head(@))>> \o Tail(@)]
               ELSE wire
    /\ IF pc[p] = "lock"
       THEN Goto(p, NoSess, "idle")
       ELSE End(p, [sess[p] EXCEPT !.local = 0], "Cancelled")
    /\ UNCHANGED <<mutex, inner, nextConn, started, prev>>
    /\ UNCHANGED apart

\* the call's future is gone: its MutexGuard, if it had one, is dropped (by the
\* end of the block that held it, by `?`, by unwinding, or with the future)
Return(p) ==
    /\ pc[p] = "return"
    /\ mutex' = IF mutex = p THEN 0 ELSE mutex
    /\ prev' = IF mutex = p THEN Summary(sess[p], connection) ELSE prev
    /\ Goto(p, NoSess, "idle")
    /\ UNCHANGED <<inner, wire, live, nextConn, started>>
    /\ UNCHANGED apart

(* ------------------------------ the server ----------------------------- *)
\* the server answers the oldest request it holds on connection c
ServerReply(c) ==
    /\ c \in live
    /\ ~wire[c].peerClosed
    /\ wire[c].out # <<>>
    /\ Len(wire[c].inbox) < MaxInbox
    /\ LET req == Head(wire[c].out)
       IN  wire' = [wire EXCEPT ![c].out = Tail(@),
                                ![c].inbox = Append(@, [sid |-> req.hdr.sid,
                                                        garbled |-> FALSE])]
    /\ UNCHANGED <<mutex, inner, pc, sess, live, nextConn, started, prev>>
    /\ UNCHANGED apart

\* the server closes connection c. The client can tell a closed peer only in
\* the probe and in read_exact, so the close is taken when a session is about
\* to look: a close at any earlier moment shows the client nothing else.
ServerClose(c) ==
    /\ c \in live
    /\ ~wire[c].peerClosed
    /\ \E p \in Procs : pc[p] \in {"probe", "read_header"} /\ connection = c
    /\ wire' = [wire EXCEPT ![c].peerClosed = TRUE]
    /\ UNCHANGED <<mutex, inner, pc, sess, live, nextConn, started, prev>>
    /\ UNCHANGED apart

AllPackets ==
    UNION {Packets([sid |-> i, garbled |-> FALSE], k) :
             k \in ApiCalls, i \in 1 .. MaxSessions}

Next ==
    \/ \E p \in Procs, k \in ApiCalls : Call(p, k)
    \/ \E p \in Procs : Lock(p)
    \/ \E p \in Procs, ok \in BOOLEAN : FactoryReturn(p, ok)
    \/ \E p \in Procs, a \in {"pending", "data", "eof", "reset", "error"} : Probe(p, a)
    \/ \E p \in Procs : PostSessionCleanup(p)
    \/ \E p \in Procs, ok \in BOOLEAN : CloseReturn(p, ok)
    \/ \E p \in Procs, ok \in BOOLEAN : WriteAll(p, ok)
    \/ \E p \in Procs, ok \in BOOLEAN : Flush(p, ok)
    \/ \E p \in Procs : ReadHeader(p)
    \/ \E p \in Procs, r \in AllPackets : ReceivePacket(p, r)
    \/ \E p \in Procs : SetInternalSingleConnectStatus(p)
    \/ \E p \in Procs : Cancel(p)
    \/ \E p \in Procs : Return(p)
    \/ \E c \in Conns : ServerReply(c)
    \/ \E c \in Conns : ServerClose(c)

Spec == Init /\ [][Next]_vars

(* ------------------- authorize: the returned arguments ----------------- *)
\* arguments in a list the caller passes or the server returns
MaxArguments == 2

ArgumentNames == {"a", "b"}

\* the arguments a caller passes and the ones a reply carries
SentArguments == [name : ArgumentNames, value : {"v"}, mandatory : BOOLEAN]
ReceivedArguments == [name : ArgumentNames, value : {"v", "w"}, mandatory : BOOLEAN]

Lists(S) == UNION {[1 .. n -> S] : n \in 0 .. MaxArguments}

\* a search that never finds the name
FindNothing(arguments, name) == 0

\* sent_arguments.iter_mut().find(|arg| arg.name() == received.name()): the
\* position of the first argument with that name, 0 for None
Find(arguments, name) ==
    IF \E i \in 1 .. Len(arguments) : arguments[i].name = name
    THEN CHOOSE i \in 1 .. Len(arguments) :
             /\ arguments[i].name = name
             /\ \A j \in 1 .. i - 1 : arguments[j].name # name
    ELSE 0

\* the loop of merge_authorization_arguments over the received arguments:
\* set_value on the sent argument found, push otherwise
RECURSIVE Replacing(_, _)
Replacing(sent_arguments, received_arguments) ==
    IF received_arguments = <<>> THEN sent_arguments
    ELSE LET received == Head(received_arguments)
             i == Find(sent_arguments, received.name)
         IN  Replacing(IF i # 0
                       THEN [sent_arguments EXCEPT ![i].value = received.value]
                       ELSE Append(sent_arguments, received),
                       Tail(received_arguments))

\* a merge that replaces whatever it is told
MergeAlwaysReplacing(replacing, sent_arguments, received_arguments) ==
    Replacing(sent_arguments, received_arguments)

MergeAuthorizationArguments(replacing, sent_arguments, received_arguments) ==
    IF replacing
    THEN Replacing(sent_arguments, received_arguments)
    ELSE sent_arguments \o received_arguments

\* the arguments of the AuthorizationResponse authorize returns for a reply
\* with this status and these arguments; an AuthorizationError has none
AuthorizeArguments(status, sent, received) ==
    IF AuthorizationTryFrom(status) = "Bad" THEN <<>>
    ELSE MergeAuthorizationArguments(status = "PassReplace", sent, received)

InitMerge ==
    /\ InitEngine
    /\ pad = NoPad
    /\ truncated = NoTruncated
    /\ encoding = NoEncoding
    /\ merge \in [status : AuthorizationStatus, sent : Lists(SentArguments),
                  received : Lists(ReceivedArguments), returned : {"none"},
                  merged : {<<>>}]
    /\ codec = NoCodec
    /\ argument = NoArgument
    /\ tasks = NoTasks
    /\ records = NoRecords
    /\ request = NoRequest

\* authorize's match on the reply status
Merge ==
    /\ merge.returned = "none"
    /\ merge' = [merge EXCEPT !.returned = Respond("authorize", merge.status),
                              !.merged = AuthorizeArguments(merge.status, merge.sent,
                                                            merge.received)]
    /\ UNCHANGED <<engine, codec, argument, tasks, records, request,
                   pad, truncated, encoding>>

NextMerge == Merge

SpecMerge == InitMerge /\ [][NextMerge]_vars

(* --------------------- packets: the binary encoding -------------------- *)
HEADER_SIZE_BYTES == 12
BODY_START == 12
MD5_OUTPUT_SIZE == 16

PacketTypes == {"Authentication", "Authorization", "Accounting"}

\* PacketType as u8
PacketTypeByte(packet_type) ==
    CASE packet_type = "Authentication" -> 1
      [] packet_type = "Authorization" -> 2
      [] packet_type = "Accounting" -> 3

\* PacketType::try_from(u8): "none" for a byte that names no type
PacketTypeTryFrom(byte) ==
    CASE byte = 1 -> "Authentication"
      [] byte = 2 -> "Authorization"
      [] byte = 3 -> "Accounting"
      [] OTHER -> "none"

\* u8::from(Version): the major version 0xc in the high nibble
VersionByte(minor) == 12 * 16 + minor

\* Version::try_from(u8) accepts this byte
VersionValid(byte) == (byte \div 16) = 12 /\ (byte % 16) \in {0, 1}

\* PacketFlags::bits: UNENCRYPTED = 0x01, SINGLE_CONNECTION = 0x04
FlagBits(header) ==
    (IF header.unencrypted THEN 1 ELSE 0) + (IF header.single_connection THEN 4 ELSE 0)

\* NetworkEndian::write_u32 and read_u32
WriteU32(n) ==
    <<(n \div 16777216) % 256, (n \div 65536) % 256, (n \div 256) % 256, n % 256>>

ReadU32(bytes) == ((bytes[1] * 256 + bytes[2]) * 256 + bytes[3]) * 256 + bytes[4]

\* a header read that takes the session id from its lowest byte alone
HeaderTryFromLowByte(buffer) ==
    IF ~VersionValid(buffer[1]) THEN [result |-> "InvalidVersion", header |-> NoHeader]
    ELSE IF buffer[4] \notin {0, 1, 4, 5}
    THEN [result |-> "InvalidHeaderFlags", header |-> NoHeader]
    ELSE [result |-> "Ok",
          header |-> [minor |-> buffer[1] % 16,
                      sequence_number |-> buffer[3],
                      unencrypted |-> (buffer[4] % 2) = 1,
                      single_connection |-> (buffer[4] \div 4) = 1,
                      session_id |-> buffer[8]]]

\* HeaderInfo::serialize: the 12 bytes of the header
HeaderSerialize(header, packet_type, body_length) ==
    <<VersionByte(header.minor), PacketTypeByte(packet_type),
      header.sequence_number, FlagBits(header)>>
    \o WriteU32(header.session_id) \o WriteU32(body_length)

\* HeaderInfo::try_from(&[u8]); buffer[1] is the source's buffer[0]
HeaderTryFrom(buffer) ==
    IF ~VersionValid(buffer[1]) THEN [result |-> "InvalidVersion", header |-> NoHeader]
    ELSE IF buffer[4] \notin {0, 1, 4, 5}
    THEN [result |-> "InvalidHeaderFlags", header |-> NoHeader]
    ELSE [result |-> "Ok",
          header |-> [minor |-> buffer[1] % 16,
                      sequence_number |-> buffer[3],
                      unencrypted |-> (buffer[4] % 2) = 1,
                      single_connection |-> (buffer[4] \div 4) = 1,
                      session_id |-> ReadU32(SubSeq(buffer, 5, 8))]]

\* PacketBody::required_minor_version: only an authentication Start has one
RequiredMinorVersion(body) ==
    CASE body.authentication_type = "Ascii" -> [some |-> TRUE, minor |-> 0]
      [] body.authentication_type \in {"Pap", "Chap"} -> [some |-> TRUE, minor |-> 1]
      [] OTHER -> [some |-> FALSE, minor |-> 0]

\* Packet::new
PacketNew(header, body) ==
    [header |-> IF RequiredMinorVersion(body).some
                THEN [header EXCEPT !.minor = RequiredMinorVersion(body).minor]
                ELSE header,
     body |-> body]

\* the ^ of two bytes
RECURSIVE Xor(_, _)
Xor(a, b) ==
    IF a = 0 THEN b
    ELSE IF b = 0 THEN a
    ELSE (((a % 2) + (b % 2)) % 2) + 2 * Xor(a \div 2, b \div 2)

\* a stand-in for MD5: 16 bytes that depend on every byte hashed
RECURSIVE Digest(_)
Digest(input) ==
    IF input = <<>> THEN 7
    ELSE ((Digest(SubSeq(input, 1, Len(input) - 1)) * 31) + input[Len(input)] + 1) % 256

Md5(input) == [j \in 1 .. MD5_OUTPUT_SIZE |-> (Digest(input) + 17 * j) % 256]

\* the pseudo pad of the n-th chunk: the hashed prefix, then the prefix with
\* the previous pad appended
RECURSIVE PseudoPad(_, _)
PseudoPad(prefix, n) ==
    IF n = 1 THEN Md5(prefix) ELSE Md5(prefix \o PseudoPad(prefix, n - 1))

\* xor_body_with_pad's chunks_iter.next().unwrap(): a body_buffer without a
\* first chunk makes it panic
XorBodyWithPadPanics(body_buffer) == body_buffer = <<>>

\* xor_body_with_pad: the bytes it leaves in a body_buffer that has a first
\* chunk; prefix = session id, key, version, sequence number
XorBodyWithPad(header, secret_key, body_buffer) ==
    LET prefix == WriteU32(header.session_id) \o secret_key
                  \o <<VersionByte(header.minor), header.sequence_number>>
    IN  [i \in 1 .. Len(body_buffer) |->
            Xor(body_buffer[i],
                PseudoPad(prefix, ((i - 1) \div MD5_OUTPUT_SIZE) + 1)
                    [((i - 1) % MD5_OUTPUT_SIZE) + 1])]

\* Packet::wire_size
WireSize(packet) == HEADER_SIZE_BYTES + Len(packet.body.bytes)

\* Packet::serialize_packet into a zeroed buffer of buffer_len bytes
SerializePacket(packet, buffer_len) ==
    IF buffer_len >= WireSize(packet)
    THEN [result |-> "Ok", length |-> WireSize(packet),
          buffer |-> HeaderSerialize(packet.header, packet.body.type,
                                     Len(packet.body.bytes))
                     \o packet.body.bytes
                     \o [i \in 1 .. buffer_len - WireSize(packet) |-> 0]]
    ELSE [result |-> "NotEnoughSpace", length |-> 0, buffer |-> <<>>]

\* a serialization that writes the flags the header came with
PacketSerializeKeepingFlag(packet, secret_key, buffer_len) ==
    LET written == SerializePacket(packet, buffer_len)
    IN  IF written.result # "Ok" THEN written
        ELSE IF XorBodyWithPadPanics(SubSeq(written.buffer, BODY_START + 1,
                                            written.length))
        THEN [result |-> "Panicked", length |-> 0, buffer |-> <<>>]
        ELSE [written EXCEPT !.buffer =
                 SubSeq(written.buffer, 1, BODY_START)
                 \o XorBodyWithPad(packet.header, secret_key,
                                   SubSeq(written.buffer, BODY_START + 1,
                                          written.length))
                 \o SubSeq(written.buffer, written.length + 1,
                           Len(written.buffer))]

\* Packet::serialize
PacketSerialize(packet, secret_key, buffer_len) ==
    LET self == [packet EXCEPT !.header.unencrypted = FALSE]
        written == SerializePacket(self, buffer_len)
    IN  IF written.result # "Ok" THEN written
        ELSE IF XorBodyWithPadPanics(SubSeq(written.buffer, BODY_START + 1,
                                            written.length))
        THEN [result |-> "Panicked", length |-> 0, buffer |-> <<>>]
        ELSE [written EXCEPT !.buffer =
                 SubSeq(written.buffer, 1, BODY_START)
                 \o XorBodyWithPad(self.header, secret_key,
                                   SubSeq(written.buffer, BODY_START + 1,
                                          written.length))
                 \o SubSeq(written.buffer, written.length + 1,
                           Len(written.buffer))]

\* Packet::serialize_unobfuscated
PacketSerializeUnobfuscated(packet, buffer_len) ==
    SerializePacket([packet EXCEPT !.header.unencrypted = TRUE], buffer_len)

\* Packet::deserialize_body for the body type B the caller asks for
DeserializeBody(buffer, expects) ==
    IF Len(buffer) > HEADER_SIZE_BYTES
    THEN IF PacketTypeTryFrom(buffer[2]) = "none"
         THEN [result |-> "InvalidPacketType", body |-> NoBody]
         ELSE IF PacketTypeTryFrom(buffer[2]) = expects
         THEN LET body_length == ReadU32(SubSeq(buffer, 9, 12))
              IN  IF Len(buffer) - BODY_START >= body_length
                  THEN [result |-> "Ok",
                        body |-> [type |-> expects, authentication_type |-> "none",
                                  bytes |-> SubSeq(buffer, BODY_START + 1,
                                                   BODY_START + body_length)]]
                  ELSE [result |-> "UnexpectedEnd", body |-> NoBody]
         ELSE [result |-> "PacketTypeMismatch", body |-> NoBody]
    ELSE [result |-> "UnexpectedEnd", body |-> NoBody]

\* what deserialize and deserialize_unobfuscated do after the flag check
Deserialized(header, buffer, expects) ==
    LET body == DeserializeBody(buffer, expects)
    IN  IF body.result # "Ok"
        THEN [result |-> body.result, header |-> NoHeader, body |-> NoBody]
        ELSE [result |-> "Ok", header |-> PacketNew(header, body.body).header,
              body |-> PacketNew(header, body.body).body]

\* Packet::deserialize
PacketDeserialize(secret_key, buffer, expects) ==
    LET header == HeaderTryFrom(buffer)
    IN  IF header.result # "Ok"
        THEN [result |-> header.result, header |-> NoHeader, body |-> NoBody]
        ELSE IF ~header.header.unencrypted
        THEN IF XorBodyWithPadPanics(SubSeq(buffer, BODY_START + 1, Len(buffer)))
             THEN [result |-> "Panicked", header |-> NoHeader, body |-> NoBody]
             ELSE
             Deserialized(header.header,
                          SubSeq(buffer, 1, BODY_START)
                          \o XorBodyWithPad(header.header, secret_key,
                                            SubSeq(buffer, BODY_START + 1, Len(buffer))),
                          expects)
        ELSE [result |-> "IncorrectUnencryptedFlag", header |-> NoHeader,
              body |-> NoBody]

\* Packet::deserialize_unobfuscated
PacketDeserializeUnobfuscated(buffer, expects) ==
    LET header == HeaderTryFrom(buffer)
    IN  IF header.result # "Ok"
        THEN [result |-> header.result, header |-> NoHeader, body |-> NoBody]
        ELSE IF header.header.unencrypted
        THEN Deserialized(header.header, buffer, expects)
        ELSE [result |-> "IncorrectUnencryptedFlag", header |-> NoHeader,
              body |-> NoBody]

\* the choice ClientInner::send_packet makes on the secret
SerializeWith(secret, packet, buffer_len) ==
    IF secret.some THEN PacketSerialize(packet, secret.key, buffer_len)
    ELSE PacketSerializeUnobfuscated(packet, buffer_len)

\* the choice ClientInner::receive_packet makes on the secret
DeserializeWith(secret, buffer, expects) ==
    IF secret.some THEN PacketDeserialize(secret.key, buffer, expects)
    ELSE PacketDeserializeUnobfuscated(buffer, expects)

\* no secret, and two keys
Secrets == {[some |-> FALSE, key |-> <<>>], [some |-> TRUE, key |-> <<107>>],
            [some |-> TRUE, key |-> <<107, 101>>]}

SessionIds == {1, 16909060}

\* body contents: one byte, two bytes, and more than one chunk of the pad
BodyBytes == {[i \in 1 .. n |-> (k * i) % 256] : n \in {1, 2, 17}, k \in {0, 165}}

\* the bodies with a type; an authentication Start has an authentication type
Bodies ==
    [type : {"Authentication"}, authentication_type : {"Ascii", "Pap", "none"},
     bytes : BodyBytes]
    \cup [type : {"Authorization", "Accounting"}, authentication_type : {"none"},
          bytes : BodyBytes]

Headers == [minor : {0, 1}, sequence_number : {1, 2}, unencrypted : BOOLEAN,
            single_connection : BOOLEAN, session_id : SessionIds]

\* buffers one byte too short, exact, and one byte too long
Spaces == {0 - 1, 0, 1}

InitCodec ==
    /\ InitEngine
    /\ pad = NoPad
    /\ truncated = NoTruncated
    /\ encoding = NoEncoding
    /\ merge = NoMerge
    /\ argument = NoArgument
    /\ tasks = NoTasks
    /\ records = NoRecords
    /\ request = NoRequest
    /\ \E header \in Headers, body \in Bodies :
          codec \in [packet : {PacketNew(header, body)}, secret : Secrets,
                     space : Spaces, key : Secrets, expects : PacketTypes,
                     written : {NoWritten}, read : {NoRead}]

\* the packet is serialized into a buffer
Serialize ==
    /\ codec.written.result = "none"
    /\ codec' = [codec EXCEPT !.written =
                    SerializeWith(codec.secret, codec.packet,
                                  WireSize(codec.packet) + codec.space)]
    /\ UNCHANGED <<engine, merge, argument, tasks, records, request,
                   pad, truncated, encoding>>

\* the buffer is deserialized
Deserialize ==
    /\ codec.written.result = "Ok"
    /\ codec.read.result = "none"
    /\ codec' = [codec EXCEPT !.read =
                    DeserializeWith(codec.key, codec.written.buffer, codec.expects)]
    /\ UNCHANGED <<engine, merge, argument, tasks, records, request,
                   pad, truncated, encoding>>

NextCodec == Serialize \/ Deserialize

SpecCodec == InitCodec /\ [][NextCodec]_vars

(* ------------------------------ Argument ------------------------------- *)
\* a FieldText used as a name: its length and whether it has a '=' or a '*'
ArgumentTexts ==
    {t \in [len : {0, 1, 2, 253, 254, 255}, delimiter : BOOLEAN] :
        t.delimiter => t.len > 0}

\* the lengths of a FieldText used as a value
ValueLengths == {0, 1, 2, 252, 253, 254, 255}

\* Argument::new: the error it returns, "none" for Ok
ArgumentNewError(name, value) ==
    IF name.len = 0 THEN "EmptyName"
    ELSE IF name.delimiter THEN "NameContainsDelimiter"
    ELSE IF name.len + 1 + value > 255 THEN "TooLong"
    ELSE "none"

InitArgument ==
    /\ InitEngine
    /\ pad = NoPad
    /\ truncated = NoTruncated
    /\ encoding = NoEncoding
    /\ merge = NoMerge
    /\ codec = NoCodec
    /\ argument = NoArgument
    /\ tasks = NoTasks
    /\ records = NoRecords
    /\ request = NoRequest

\* Argument::new(name, value, mandatory); on an error the caller keeps what
\* it had
New(name, value, mandatory) ==
    /\ argument' =
          IF ArgumentNewError(name, value) = "none"
          THEN [some |-> TRUE, name |-> name, value |-> value,
                mandatory |-> mandatory, error |-> "none"]
          ELSE [argument EXCEPT !.error = ArgumentNewError(name, value)]
    /\ UNCHANGED <<engine, merge, codec, tasks, records, request,
                   pad, truncated, encoding>>

\* Argument::default(), derived: empty name, empty value, not mandatory
Default ==
    /\ argument' = [NoArgument EXCEPT !.some = TRUE]
    /\ UNCHANGED <<engine, merge, codec, tasks, records, request,
                   pad, truncated, encoding>>

\* the setters #[getset(set = "pub")] generates: plain assignments
SetName(name) ==
    /\ argument.some
    /\ argument' = [argument EXCEPT !.name = name, !.error = "none"]
    /\ UNCHANGED <<engine, merge, codec, tasks, records, request,
                   pad, truncated, encoding>>

SetValue(value) ==
    /\ argument.some
    /\ argument' = [argument EXCEPT !.value = value, !.error = "none"]
    /\ UNCHANGED <<engine, merge, codec, tasks, records, request,
                   pad, truncated, encoding>>

SetMandatory(mandatory) ==
    /\ argument.some
    /\ argument' = [argument EXCEPT !.mandatory = mandatory, !.error = "none"]
    /\ UNCHANGED <<engine, merge, codec, tasks, records, request,
                   pad, truncated, encoding>>

NextArgument ==
    \/ \E name \in ArgumentTexts, value \in ValueLengths, mandatory \in BOOLEAN :
          New(name, value, mandatory)
    \/ Default
    \/ \E name \in ArgumentTexts : SetName(name)
    \/ \E value \in ValueLengths : SetValue(value)
    \/ \E mandatory \in BOOLEAN : SetMandatory(mandatory)

SpecArgument == InitArgument /\ [][NextArgument]_vars

(* --------------------------- accounting tasks -------------------------- *)
\* update calls made on one task
MaxUpdates == 2

\* the values Uuid::new_v4 may give
TaskIds == 1 .. MaxTasks

\* how make_request ends: before its packet is written (a context or argument
\* error, no connection, a failed write), with a Success reply, or with the
\* packet written and an Err returned (an Error or Follow status, no usable
\* reply, a failed cleanup)
Outcomes == {"unsent", "Success", "Err"}

\* make_request returned Ok(AccountingResponse)
RequestOk(outcome) == outcome = "Success"

\* full_arguments and flags as written by make_request for the task in slot t:
\* task_id first, then the time argument, then the caller's
Record(t, id, flags, time, outcome) ==
    [task |-> t, flags |-> flags, first |-> [name |-> "task_id", value |-> id],
     second |-> time, reply |-> outcome]

Sent(outcome, record) ==
    IF outcome = "unsent" THEN records
    ELSE [records EXCEPT ![record.task] = Append(@, record)]

\* a task that can still be used after stop
ConsumeNever(task) == task

\* stop(self) takes the task by value
Consume(task) == [task EXCEPT !.state = "consumed"]

InitTask ==
    /\ InitEngine
    /\ pad = NoPad
    /\ truncated = NoTruncated
    /\ encoding = NoEncoding
    /\ merge = NoMerge
    /\ codec = NoCodec
    /\ argument = NoArgument
    /\ tasks = NoTasks
    /\ records = NoRecords
    /\ request = NoRequest

\* Client::account_begin, i.e. AccountingTask::start: the task is returned
\* only with the Ok of make_request
Start(id, outcome) ==
    /\ \E t \in 1 .. MaxTasks :
          /\ tasks[t].state = "none"
          /\ \A u \in 1 .. t - 1 : tasks[u].state # "none"
          /\ \A u \in 1 .. MaxTasks : tasks[u].id # id
          /\ tasks' = [tasks EXCEPT ![t] =
                          [NoTask EXCEPT !.state = IF RequestOk(outcome) THEN "held"
                                                   ELSE "refused",
                                         !.id = id]]
          /\ records' = Sent(outcome, Record(t, id, "StartRecord", "start_time",
                                             outcome))
    /\ UNCHANGED <<engine, merge, codec, argument, request,
                   pad, truncated, encoding>>

\* AccountingTask::update(&self) is called: the future borrows the task
Update(t) ==
    /\ tasks[t].state = "held"
    /\ tasks[t].updates < MaxUpdates
    /\ tasks' = [tasks EXCEPT ![t].updates = @ + 1, ![t].inflight = @ + 1]
    /\ UNCHANGED <<engine, merge, codec, argument, records, request,
                   pad, truncated, encoding>>

\* the future of an update runs make_request and ends, or is dropped
UpdateReturn(t, outcome) ==
    /\ tasks[t].inflight > 0
    /\ tasks' = [tasks EXCEPT ![t].inflight = @ - 1]
    /\ records' = Sent(outcome, Record(t, tasks[t].id, "WatchdogUpdate",
                                       "elapsed_time", outcome))
    /\ UNCHANGED <<engine, merge, codec, argument, request,
                   pad, truncated, encoding>>

\* AccountingTask::stop(self): callable on a task that is owned and not
\* borrowed by a pending update
Stop(t, outcome) ==
    /\ tasks[t].state = "held"
    /\ tasks[t].inflight = 0
    /\ tasks' = [tasks EXCEPT ![t] = Consume(tasks[t])]
    /\ records' = Sent(outcome, Record(t, tasks[t].id, "StopRecord", "stop_time",
                                       outcome))
    /\ UNCHANGED <<engine, merge, codec, argument, request,
                   pad, truncated, encoding>>

NextTask ==
    \/ \E id \in TaskIds, outcome \in Outcomes : Start(id, outcome)
    \/ \E t \in 1 .. MaxTasks : Update(t)
    \/ \E t \in 1 .. MaxTasks, outcome \in Outcomes : UpdateReturn(t, outcome)
    \/ \E t \in 1 .. MaxTasks, outcome \in Outcomes : Stop(t, outcome)

SpecTask == InitTask /\ [][NextTask]_vars

(* ------------------------- the requests of a call ---------------------- *)
\* the calls of the client that build a request packet
RequestKinds == {"Pap", "Chap", "Authorize", "StartRecord", "WatchdogUpdate",
                 "StopRecord"}

\* a header without SINGLE_CONNECTION
MakeHeaderInfoWithoutSingle(secret, sequence_number, minor_version, session_id) ==
    [minor |-> minor_version, sequence_number |-> sequence_number,
     unencrypted |-> ~secret.some, single_connection |-> FALSE,
     session_id |-> session_id]

\* Client::make_header, every field; session_id: what thread_rng gave
MakeHeaderInfo(secret, sequence_number, minor_version, session_id) ==
    [minor |-> minor_version, sequence_number |-> sequence_number,
     unencrypted |-> ~secret.some, single_connection |-> TRUE,
     session_id |-> session_id]

\* the minor version each call passes to make_header: V1 in the two
\* authentication start packets, Default in authorize and in make_request
HeaderMinorVersion(kind) == IF kind \in {"Pap", "Chap"} THEN 1 ELSE 0

\* the body each call builds, with its encoding
RequestBody(kind, bytes) ==
    [type |-> CASE kind \in {"Pap", "Chap"} -> "Authentication"
                [] kind = "Authorize" -> "Authorization"
                [] OTHER -> "Accounting",
     authentication_type |-> IF kind \in {"Pap", "Chap"} THEN kind ELSE "none",
     bytes |-> bytes]

\* the Packet::new(self.make_header(1, minor), body) of each call
BuildRequest(kind, secret, session_id, bytes) ==
    PacketNew(MakeHeaderInfo(secret, RequestSeq, HeaderMinorVersion(kind), session_id),
              RequestBody(kind, bytes))

InitRequest ==
    /\ InitEngine
    /\ pad = NoPad
    /\ truncated = NoTruncated
    /\ encoding = NoEncoding
    /\ merge = NoMerge
    /\ codec = NoCodec
    /\ argument = NoArgument
    /\ tasks = NoTasks
    /\ records = NoRecords
    /\ request \in [kind : RequestKinds, secret : Secrets, session_id : SessionIds,
                    bytes : BodyBytes, written : {NoWritten}]

\* _send_packet serializes the request into a buffer of wire_size bytes
SendRequest ==
    /\ request.written.result = "none"
    /\ LET packet == BuildRequest(request.kind, request.secret, request.session_id,
                                  request.bytes)
       IN  request' = [request EXCEPT !.written =
                          SerializeWith(request.secret, packet, WireSize(packet))]
    /\ UNCHANGED <<engine, merge, codec, argument, tasks, records,
                   pad, truncated, encoding>>

NextRequest == SendRequest

SpecRequest == InitRequest /\ [][NextRequest]_vars

(* ---------------------- calls that may fail to build ------------------- *)
\* what the caller may pass to each call: a context that as_user_information
\* accepts or not, a system clock after the Unix epoch or not, a password of
\* 255 or 256 bytes, and argument lists around the limit of each call
Inputs(k) ==
    CASE k = "authenticate" ->
            [authentication_type : {"Pap", "Chap"}, flags : {"none"},
             context_ok : BOOLEAN, clock_ok : {TRUE}, password : {255, 256},
             arguments : {0}]
      [] k = "authorize" ->
            [authentication_type : {"none"}, flags : {"none"},
             context_ok : BOOLEAN, clock_ok : {TRUE}, password : {0},
             arguments : {255, 256}]
      [] k = "make_request" ->
            [authentication_type : {"none"},
             flags : {"StartRecord", "WatchdogUpdate", "StopRecord"},
             context_ok : BOOLEAN, clock_ok : BOOLEAN, password : {0},
             arguments : {253, 254}]

\* the length of full_arguments: start, update and stop prepend two arguments
FullArguments(k, input) ==
    IF k = "make_request" THEN 2 + input.arguments ELSE input.arguments

\* an Arguments::new that takes any number of arguments
ArgumentsNewAny(len) == TRUE

\* Arguments::new is Some: the length fits a u8
ArgumentsNew(len) == len <= 255

\* PacketData::try_from is Ok: the length fits a u8
PacketDataTryFrom(len) == len <= 255

\* the data field of the start packet: the password in PAP; the PPP id, the
\* challenge and the MD5 response in CHAP
StartData(input) ==
    IF input.authentication_type = "Pap" THEN input.password ELSE 1 + 16 + 16

\* a start packet that is built whatever the length of its data
BuildErrorAnyData(k, input) ==
    CASE k = "authenticate" ->
            IF ~input.context_ok THEN "InvalidContext" ELSE "none"
      [] k = "authorize" ->
            IF ~input.context_ok THEN "InvalidContext"
            ELSE IF ~ArgumentsNew(FullArguments(k, input)) THEN "TooManyArguments"
            ELSE "none"
      [] k = "make_request" ->
            IF input.flags # "WatchdogUpdate" /\ ~input.clock_ok
            THEN "SystemTimeBeforeEpoch"
            ELSE IF ~input.context_ok THEN "InvalidContext"
            ELSE IF ~ArgumentsNew(FullArguments(k, input)) THEN "TooManyArguments"
            ELSE "none"

\* the error with which a call returns before it asks for the mutex, "none" if
\* its request packet gets built; the `?`s in the order they are evaluated
BuildError(k, input) ==
    CASE k = "authenticate" ->
            IF ~input.context_ok THEN "InvalidContext"
            ELSE IF ~PacketDataTryFrom(StartData(input)) THEN "PasswordTooLong"
            ELSE "none"
      [] k = "authorize" ->
            IF ~input.context_ok THEN "InvalidContext"
            ELSE IF ~ArgumentsNew(FullArguments(k, input)) THEN "TooManyArguments"
            ELSE "none"
      [] k = "make_request" ->
            IF input.flags # "WatchdogUpdate" /\ ~input.clock_ok
            THEN "SystemTimeBeforeEpoch"
            ELSE IF ~input.context_ok THEN "InvalidContext"
            ELSE IF ~ArgumentsNew(FullArguments(k, input)) THEN "TooManyArguments"
            ELSE "none"

\* a call is made on handle p with this input: either its request packet is
\* built and the future waits for the mutex, or it returns the error. Calls
\* are made as long as another session may still start
CallWith(p, k, input) ==
    /\ pc[p] = "idle"
    /\ started + Cardinality({q \in Procs : pc[q] = "lock"}) < MaxSessions
    /\ IF BuildError(k, input) = "none"
       THEN Goto(p, [NoSess EXCEPT !.kind = k], "lock")
       ELSE End(p, [NoSess EXCEPT !.kind = k], BuildError(k, input))
    /\ UNCHANGED <<mutex, inner, wire, live, nextConn, started, prev>>
    /\ UNCHANGED apart

NextCalls ==
    \/ \E p \in Procs, k \in ApiCalls : \E input \in Inputs(k) : CallWith(p, k, input)
    \/ \E p \in Procs : Lock(p)
    \/ \E p \in Procs, ok \in BOOLEAN : FactoryReturn(p, ok)
    \/ \E p \in Procs, a \in {"pending", "data", "eof", "reset", "error"} : Probe(p, a)
    \/ \E p \in Procs : PostSessionCleanup(p)
    \/ \E p \in Procs, ok \in BOOLEAN : CloseReturn(p, ok)
    \/ \E p \in Procs, ok \in BOOLEAN : WriteAll(p, ok)
    \/ \E p \in Procs, ok \in BOOLEAN : Flush(p, ok)
    \/ \E p \in Procs : ReadHeader(p)
    \/ \E p \in Procs, r \in AllPackets : ReceivePacket(p, r)
    \/ \E p \in Procs : SetInternalSingleConnectStatus(p)
    \/ \E p \in Procs : Cancel(p)
    \/ \E p \in Procs : Return(p)
    \/ \E c \in Conns : ServerReply(c)
    \/ \E c \in Conns : ServerClose(c)

SpecCalls == Init /\ [][NextCalls]_vars

(* --------------------------- xor_body_with_pad -------------------------- *)
\* a call of xor_body_with_pad on a buffer: a panic, or the buffer XORed
XorBodyWithPadCall(header, secret_key, body_buffer) ==
    IF XorBodyWithPadPanics(body_buffer)
    THEN [result |-> "Panicked", buffer |-> <<>>]
    ELSE [result |-> "Ok",
          buffer |-> XorBodyWithPad(header, secret_key, body_buffer)]

\* an empty key and two keys
Keys == {<<>>, <<107>>, <<107, 101>>}

\* bodies of no byte, one byte, one whole chunk of the pad, a chunk and a
\* byte, and two chunks and a byte
PadBodies ==
    {[i \in 1 .. n |-> (k * i) % 256] : n \in {0, 1, 16, 17, 33}, k \in {0, 165}}

InitPad ==
    /\ InitEngine
    /\ merge = NoMerge
    /\ codec = NoCodec
    /\ argument = NoArgument
    /\ tasks = NoTasks
    /\ records = NoRecords
    /\ request = NoRequest
    /\ truncated = NoTruncated
    /\ encoding = NoEncoding
    /\ pad \in [header : Headers, key : Keys, body : PadBodies,
                once : {NoXored}, twice : {NoXored}]

\* xor_body_with_pad is applied to the body
Obfuscate ==
    /\ pad.once.result = "none"
    /\ pad' = [pad EXCEPT !.once =
                  XorBodyWithPadCall(pad.header, pad.key, pad.body)]
    /\ UNCHANGED <<engine, merge, codec, argument, tasks, records, request,
                   truncated, encoding>>

\* xor_body_with_pad is applied to what the first application left
Deobfuscate ==
    /\ pad.once.result = "Ok"
    /\ pad.twice.result = "none"
    /\ pad' = [pad EXCEPT !.twice =
                  XorBodyWithPadCall(pad.header, pad.key, pad.once.buffer)]
    /\ UNCHANGED <<engine, merge, codec, argument, tasks, records, request,
                   truncated, encoding>>

NextPad == Obfuscate \/ Deobfuscate

SpecPad == InitPad /\ [][NextPad]_vars

(* ---------------------- a packet of a header alone --------------------- *)
\* the 12 bytes of the header with UNENCRYPTED as given, and no body byte
HeaderAlone(unencrypted) ==
    HeaderSerialize([truncated.header EXCEPT !.unencrypted = unencrypted],
                    truncated.packet_type, truncated.body_length)

InitTruncated ==
    /\ InitEngine
    /\ merge = NoMerge
    /\ codec = NoCodec
    /\ argument = NoArgument
    /\ tasks = NoTasks
    /\ records = NoRecords
    /\ request = NoRequest
    /\ pad = NoPad
    /\ encoding = NoEncoding
    /\ truncated \in [header : {h \in Headers : ~h.unencrypted},
                      packet_type : PacketTypes, body_length : {0, 1},
                      key : Keys, expects : PacketTypes,
                      obfuscated : {NoRead}, unobfuscated : {NoRead}]

\* Packet::deserialize with the key on the header with UNENCRYPTED clear
DeserializeHeaderAlone ==
    /\ truncated.obfuscated.result = "none"
    /\ truncated' = [truncated EXCEPT !.obfuscated =
                        PacketDeserialize(truncated.key, HeaderAlone(FALSE),
                                          truncated.expects)]
    /\ UNCHANGED <<engine, merge, codec, argument, tasks, records, request,
                   pad, encoding>>

\* Packet::deserialize_unobfuscated on the same header with UNENCRYPTED set
DeserializeUnobfuscatedHeaderAlone ==
    /\ truncated.unobfuscated.result = "none"
    /\ truncated' = [truncated EXCEPT !.unobfuscated =
                        PacketDeserializeUnobfuscated(HeaderAlone(TRUE),
                                                      truncated.expects)]
    /\ UNCHANGED <<engine, merge, codec, argument, tasks, records, request,
                   pad, encoding>>

NextTruncated == DeserializeHeaderAlone \/ DeserializeUnobfuscatedHeaderAlone

SpecTruncated == InitTruncated /\ [][NextTruncated]_vars

(* ------------------------- Argument on the wire ------------------------ *)
MaxBuffer == 4
MaxText == 2

\* b'=' and b'*'
MANDATORY_DELIMITER == 61
OPTIONAL_DELIMITER == 42

\* the bytes of the model: 'a', the two delimiters, and a tab (a control
\* character)
Bytes == {97, MANDATORY_DELIMITER, OPTIONAL_DELIMITER, 9}

SeqsUpTo(S, n) == UNION {[1 .. k -> S] : k \in 0 .. n}

\* a position that is the last occurrence
PositionOfLast(buffer, c) ==
    IF \E i \in 1 .. Len(buffer) : buffer[i] = c
    THEN CHOOSE i \in 1 .. Len(buffer) :
            buffer[i] = c /\ \A j \in i + 1 .. Len(buffer) : buffer[j] # c
    ELSE 0

\* buffer.iter().position(|b| *b == c): the index (from 1) of the first
\* occurrence, 0 for None
Position(buffer, c) ==
    IF \E i \in 1 .. Len(buffer) : buffer[i] = c
    THEN CHOOSE i \in 1 .. Len(buffer) :
            buffer[i] = c /\ \A j \in 1 .. i - 1 : buffer[j] # c
    ELSE 0

\* is_printable_ascii: every character is ASCII and not a control character
IsPrintableAscii(bytes) ==
    \A i \in 1 .. Len(bytes) : bytes[i] >= 32 /\ bytes[i] < 127

\* FieldText::contains_any
ContainsAny(text, characters) ==
    \E i \in 1 .. Len(text) : text[i] \in characters

\* Argument::new on FieldTexts given as bytes
ArgumentNewBytes(name, value, mandatory) ==
    LET error == ArgumentNewError(
                     [len |-> Len(name),
                      delimiter |-> ContainsAny(name, {MANDATORY_DELIMITER,
                                                       OPTIONAL_DELIMITER})],
                     Len(value))
    IN  IF error = "none"
        THEN [result |-> "Ok",
              argument |-> [name |-> name, value |-> value, mandatory |-> mandatory]]
        ELSE [result |-> error, argument |-> NoArgumentBytes]

\* Argument::delimiter
Delimiter(self) ==
    IF self.mandatory THEN MANDATORY_DELIMITER ELSE OPTIONAL_DELIMITER

\* a serialization that writes '=' whatever the argument
ArgumentSerializeAsMandatory(self, buffer_len) ==
    LET encoded_len == Len(self.name) + 1 + Len(self.value)
    IN  IF buffer_len >= encoded_len
        THEN [result |-> "Ok", length |-> encoded_len,
              buffer |-> self.name \o <<MANDATORY_DELIMITER>> \o self.value
                         \o [i \in 1 .. buffer_len - encoded_len |-> 0]]
        ELSE [result |-> "NotEnoughSpace", length |-> 0, buffer |-> <<>>]

\* Argument::serialize into a zeroed buffer of buffer_len bytes
ArgumentSerialize(self, buffer_len) ==
    LET encoded_len == Len(self.name) + 1 + Len(self.value)
    IN  IF buffer_len >= encoded_len
        THEN [result |-> "Ok", length |-> encoded_len,
              buffer |-> self.name \o <<Delimiter(self)>> \o self.value
                         \o [i \in 1 .. buffer_len - encoded_len |-> 0]]
        ELSE [result |-> "NotEnoughSpace", length |-> 0, buffer |-> <<>>]

\* Argument::deserialize
ArgumentDeserialize(buffer) ==
    LET equals_index == Position(buffer, MANDATORY_DELIMITER)
        star_index == Position(buffer, OPTIONAL_DELIMITER)
        delimiter_index ==
            IF equals_index = 0 THEN star_index
            ELSE IF star_index = 0 THEN equals_index
            ELSE IF equals_index < star_index THEN equals_index ELSE star_index
    IN  IF delimiter_index = 0
        THEN [result |-> "NoDelimiter", argument |-> NoArgumentBytes]
        ELSE LET required == buffer[delimiter_index] = MANDATORY_DELIMITER
                 name == SubSeq(buffer, 1, delimiter_index - 1)
                 value == SubSeq(buffer, delimiter_index + 1, Len(buffer))
             IN  IF ~IsPrintableAscii(name) \/ ~IsPrintableAscii(value)
                 THEN [result |-> "BadText", argument |-> NoArgumentBytes]
                 ELSE ArgumentNewBytes(name, value, required)

\* bytes as they may arrive in a packet body
ReceivedBuffers == SeqsUpTo(Bytes, MaxBuffer)

\* FieldTexts: printable text of the model's bytes, and two long values of
\* which the longer no longer fits beside a name of two characters
Texts ==
    {t \in SeqsUpTo(Bytes, MaxText) : IsPrintableAscii(t)}
    \cup {[i \in 1 .. n |-> 97] : n \in {252, 253}}

\* the Arguments Argument::new accepts
AcceptedArguments ==
    {ArgumentNewBytes(name, value, mandatory).argument :
        <<name, value, mandatory>> \in
            {x \in Texts \X Texts \X BOOLEAN :
                ArgumentNewBytes(x[1], x[2], x[3]).result = "Ok"}}

InitEncoding ==
    /\ InitEngine
    /\ merge = NoMerge
    /\ codec = NoCodec
    /\ argument = NoArgument
    /\ tasks = NoTasks
    /\ records = NoRecords
    /\ request = NoRequest
    /\ pad = NoPad
    /\ truncated = NoTruncated
    /\ \/ encoding \in [some : {FALSE}, argument : {NoArgumentBytes},
                        buffer : ReceivedBuffers, written : {"none"},
                        decoded : {NoDecoded}]
       \/ encoding \in [some : {TRUE}, argument : AcceptedArguments,
                        buffer : {<<>>}, written : {"none"},
                        decoded : {NoDecoded}]

\* the Argument is serialized into a buffer with space bytes to spare; the
\* encoded bytes are the first `length` bytes of it
Encode(space) ==
    /\ encoding.some
    /\ encoding.written = "none"
    /\ LET encoded_len == Len(encoding.argument.name) + 1
                          + Len(encoding.argument.value)
           written == ArgumentSerialize(encoding.argument, encoded_len + space)
       IN  encoding' = [encoding EXCEPT
                           !.written = written.result,
                           !.buffer = SubSeq(written.buffer, 1, written.length)]
    /\ UNCHANGED <<engine, merge, codec, argument, tasks, records, request,
                   pad, truncated>>

\* the bytes, received or just written, are deserialized
Decode ==
    /\ encoding.decoded.result = "none"
    /\ encoding.some => encoding.written = "Ok"
    /\ encoding' = [encoding EXCEPT !.decoded = ArgumentDeserialize(encoding.buffer)]
    /\ UNCHANGED <<engine, merge, codec, argument, tasks, records, request,
                   pad, truncated>>

NextEncoding ==
    \/ \E space \in Spaces : Encode(space)
    \/ Decode

SpecEncoding == InitEncoding /\ [][NextEncoding]_vars

(* ============================== properties ============================= *)
\* the session on handle p holds the mutex and comes right after the session
\* summarised in prev
Follows(p) == mutex = p /\ prev.result # "none"

\* the session summarised in prev started on a new client (no connection, both
\* flags false), found its connection open and accepted a reply whose status
\* is not Error
FirstCallReplied == prev.fresh /\ prev.pended /\ prev.replied = "other"

\* C1: of two sequential calls on a new client with a healthy server and a
\* probe that pends, the first invokes the factory once and writes on that
\* connection; if its reply carries SINGLE_CONNECTION the connection stays in
\* the client and the second call writes on it without invoking the factory
\* (one invocation in all); if the reply does not carry it the connection is
\* closed and dropped after the first call and the second call invokes the
\* factory once and writes on another connection (two invocations in all)
C1_SingleConnectionLifecycle ==
    /\ (mutex = 0 /\ FirstCallReplied) =>
           /\ prev.fcalls = 1
           /\ prev.wroteOn # 0
           /\ IF prev.single
              THEN connection = prev.wroteOn /\ prev.wroteOn \in live
              ELSE connection = 0 /\ prev.wroteOn \notin live
    /\ \A p \in Procs :
           (Follows(p) /\ FirstCallReplied) =>
               /\ prev.fcalls = 1
               /\ IF prev.single
                  THEN /\ sess[p].startConn = prev.wroteOn
                       /\ (sess[p].probe = "pending" /\ sess[p].wroteOn # 0) =>
                              /\ sess[p].wroteOn = prev.wroteOn
                              /\ sess[p].fcalls = 0
                  ELSE /\ sess[p].startConn = 0
                       /\ prev.wroteOn \notin live
                       /\ (sess[p].probe = "pending" /\ sess[p].wroteOn # 0) =>
                              /\ sess[p].wroteOn # prev.wroteOn
                              /\ sess[p].fcalls = 1

\* the second call has written its request on the connection the first call
\* opened and the server kept
C1_Witness ==
    \E p \in Procs :
        /\ Follows(p) /\ FirstCallReplied /\ prev.single
        /\ sess[p].probe = "pending"
        /\ sess[p].wroteOn = prev.wroteOn
        /\ sess[p].fcalls = 0

\* C2: at most one session is between the start of its send (liveness probe
\* and request write) and the end of its post-session cleanup, whatever the
\* number of handles and the interleaving of their calls
C2_OneSessionInFlight ==
    \A p, q \in Procs : (p # q /\ InFlight(p)) => ~InFlight(q)

\* one session is reading its reply while another handle waits for the mutex
C2_Witness ==
    \E p, q \in Procs : p # q /\ pc[p] = "read_header" /\ pc[q] = "lock"

\* C3: once a session has ended with InvalidPacketReceived the connection it
\* read the packet from is no longer held by the client, and the session after
\* it writes on a connection it got from the factory
C3_InvalidPacketDropsConnection ==
    /\ (mutex = 0 /\ prev.result = "InvalidPacketReceived") =>
           connection = 0 /\ prev.wroteOn \notin live
    /\ \A p \in Procs :
           (Follows(p) /\ prev.result = "InvalidPacketReceived"
              /\ sess[p].wroteOn # 0) =>
               sess[p].wroteOn # prev.wroteOn /\ sess[p].fcalls >= 1

\* C4: a session whose future was dropped after it had begun to write leaves
\* a connection that the next session neither writes to nor reads from
C4_DroppedSessionDiscardsConnection ==
    \A p \in Procs :
        (Follows(p) /\ prev.result = "Cancelled" /\ prev.writeBegun
           /\ prev.conn # 0) =>
            sess[p].wroteOn # prev.conn /\ sess[p].readOn # prev.conn

\* the send_packet of the session on handle p is over: it returned, or the
\* session ended in it other than by being dropped
SendPacketOver(p) ==
    /\ pc[p] \notin {"lock", "sp_factory", "probe", "sp_cleanup", "sp_closing"}
    /\ sess[p].result # "Cancelled"

\* C5: when the probe of the held connection answers EOF, BrokenPipe or
\* ConnectionReset, send_packet discards that connection, asks the factory for
\* a new one and writes the request on the new one; when the probe pends the
\* held connection is the one written on and the factory is not invoked
C5_ProbeReconnects ==
    \A p \in Procs :
        /\ (sess[p].probe \in {"eof", "reset"} /\ SendPacketOver(p)) =>
               /\ sess[p].probed \notin live
               /\ sess[p].reconnects = 1
               /\ sess[p].wroteOn # 0 => sess[p].wroteOn # sess[p].probed
        /\ (sess[p].probe = "pending" /\ sess[p].wroteOn # 0) =>
               /\ sess[p].wroteOn = sess[p].probed
               /\ sess[p].reconnects = 0

\* C6: once a session whose reply has status Error is over, the client holds
\* no connection and both flags are false, also when single-connection mode
\* was established; a reply with any other status leaves an established
\* connection in the client
C6_ErrorStatusClosesConnection ==
    /\ (mutex = 0 /\ prev.replied = "error") =>
           /\ connection = 0
           /\ prev.wroteOn \notin live
           /\ ~first_session_completed
           /\ ~single_connection_established
    /\ \A p \in Procs :
           (pc[p] = "return" /\ sess[p].reply # NoReply
              /\ sess[p].reply.status # "Error"
              /\ single_connection_established) =>
               connection = sess[p].wroteOn /\ connection \in live

C8_AtMostOneLiveConnection == Cardinality(live) <= 1

\* a session that reconnected after its probe holds the one live connection
\* while another handle waits for the mutex
C8_Witness ==
    \E p, q \in Procs :
        /\ p # q /\ pc[q] = "lock"
        /\ sess[p].probe \in {"eof", "reset"} /\ sess[p].reconnects = 1
        /\ pc[p] = "write"
        /\ live = {connection}

\* every request the client wrote has an odd sequence number and every reply
\* a session accepted has an even one
OddEven ==
    /\ \A c \in Conns : \A i \in 1 .. Len(wire[c].out) :
           wire[c].out[i].hdr.seq % 2 = 1
    /\ \A p \in Procs : sess[p].reply # NoReply => sess[p].reply.seq % 2 = 0

\* the results that are a response built from a reply
Responses ==
    {"Success", "Failure", "AuthenticationError", "AuthorizationError",
     "AccountingResponse", "AccountingError"}

StatusTable(k, st, follow) ==
    CASE k = "authenticate" ->
             IF st = "Pass" THEN "Success"
             ELSE IF st \in {"Fail", "Follow", "Restart"} THEN "Failure"
             ELSE "AuthenticationError"
      [] k = "authorize" ->
             IF st \in {"PassAdd", "PassReplace"} THEN "Success"
             ELSE IF st = "Fail" THEN "Failure"
             ELSE IF st = "Follow" THEN follow
             ELSE "AuthorizationError"
      [] OTHER ->
             IF st = "Success" THEN "AccountingResponse" ELSE "AccountingError"

\* the session on handle p accepted a reply and returned from its status match
Matched(p) ==
    /\ pc[p] = "return"
    /\ sess[p].reply # NoReply
    /\ sess[p].result \notin {"IOError", "Cancelled", "Panicked"}

\* C10 as stated: authenticate maps Pass to Success, Fail, Follow and Restart
\* to Failure and every other status to AuthenticationError; authorize maps
\* PassAdd and PassReplace to Success, Fail to Failure and every other status,
\* Follow among them, to AuthorizationError; accounting maps Success to a
\* response and every other status to AccountingError
C10_StatusMapping_AsStated ==
    \A p \in Procs :
        Matched(p) =>
            sess[p].result =
                StatusTable(sess[p].kind, sess[p].reply.status, "AuthorizationError")

\* C10: as above, except that authorize maps Follow to Failure, as
\* authenticate does
C10_StatusMapping ==
    \A p \in Procs :
        Matched(p) =>
            sess[p].result = StatusTable(sess[p].kind, sess[p].reply.status, "Failure")

\* an authorize call got a reply with status Follow and returned Failure
C10_Witness ==
    \E p \in Procs :
        /\ Matched(p)
        /\ sess[p].kind = "authorize"
        /\ sess[p].reply.status = "Follow"
        /\ sess[p].result = "Failure"

\* the names of a list of arguments, and its (name, value) pairs
Names(arguments) == {arguments[i].name : i \in 1 .. Len(arguments)}
NameValues(arguments) ==
    [i \in 1 .. Len(arguments) |-> <<arguments[i].name, arguments[i].value>>]

\* no two arguments of the list have the same name
UniqueNames(arguments) ==
    \A i, j \in 1 .. Len(arguments) :
        arguments[i].name = arguments[j].name => i = j

\* the value the list gives to a name that occurs in it once
ValueOf(arguments, name) ==
    (CHOOSE a \in {arguments[i] : i \in 1 .. Len(arguments)} : a.name = name).value

\* the received arguments whose names are not in the sent list, in order
RECURSIVE Unsent(_, _)
Unsent(sent, received) ==
    IF received = <<>> THEN <<>>
    ELSE (IF Head(received).name \in Names(sent) THEN <<>> ELSE <<Head(received)>>)
         \o Unsent(sent, Tail(received))

\* C11: with status PassReplace and names unique within the sent list and
\* within the received list, authorize returns the sent list in its order,
\* each sent argument whose name is also received carrying the received value,
\* followed by the received arguments whose names were not sent, in received
\* order
C11_AuthorizationReplace ==
    (merge.status = "PassReplace" /\ merge.returned # "none"
       /\ UniqueNames(merge.sent) /\ UniqueNames(merge.received)) =>
        NameValues(merge.merged) =
            [i \in 1 .. Len(merge.sent) |->
                <<merge.sent[i].name,
                  IF merge.sent[i].name \in Names(merge.received)
                  THEN ValueOf(merge.received, merge.sent[i].name)
                  ELSE merge.sent[i].value>>]
            \o NameValues(Unsent(merge.sent, merge.received))

\* a PassReplace reply replaced the value of one sent argument, left another
\* sent argument alone and added nothing, or added a received one
C11_Witness ==
    /\ merge.status = "PassReplace" /\ merge.returned # "none"
    /\ UniqueNames(merge.sent) /\ UniqueNames(merge.received)
    /\ Len(merge.sent) = 1 /\ Len(merge.received) = 2
    /\ merge.received[2].name = merge.sent[1].name
    /\ merge.received[2].value # merge.sent[1].value
    /\ Len(merge.merged) = 2
    /\ merge.merged[1].value = merge.received[2].value
    /\ merge.merged[2] = merge.received[1]

\* C12: with status PassAdd authorize returns the sent arguments, unchanged
\* and in order, followed by the received arguments in order, with no value
\* replaced even when a name is in both lists
C12_AuthorizationAdd ==
    (merge.status = "PassAdd" /\ merge.returned # "none") =>
        merge.merged = merge.sent \o merge.received

\* a PassAdd reply that names a sent argument with another value was merged
C12_Witness ==
    /\ merge.status = "PassAdd" /\ merge.returned # "none"
    /\ \E i \in 1 .. Len(merge.sent), j \in 1 .. Len(merge.received) :
           /\ merge.sent[i].name = merge.received[j].name
           /\ merge.sent[i].value # merge.received[j].value


\* the UNENCRYPTED bit of the flags byte of a serialized packet
WrittenUnencrypted == (codec.written.buffer[4] % 2) = 1

\* C13: a packet serialized with a secret has UNENCRYPTED clear and one
\* serialized without a secret has it set, whatever flag its header came with;
\* deserializing with a secret a packet whose flag is set, or without a secret
\* a packet whose flag is clear, fails with IncorrectUnencryptedFlag
C13_FlagPolicy ==
    /\ codec.written.result = "Ok" => (WrittenUnencrypted <=> ~codec.secret.some)
    /\ codec.read.result # "none" =>
          /\ codec.key.some /\ WrittenUnencrypted
                => codec.read.result = "IncorrectUnencryptedFlag"
          /\ ~codec.key.some /\ ~WrittenUnencrypted
                => codec.read.result = "IncorrectUnencryptedFlag"

\* a packet whose header had the flag set was serialized with a secret, and
\* the cleartext reader refused the result
C13_Witness ==
    /\ codec.packet.header.unencrypted
    /\ codec.secret.some
    /\ ~codec.key.some
    /\ codec.written.result = "Ok"
    /\ codec.read.result = "IncorrectUnencryptedFlag"

\* the buffer was read back with the secret it was written with, as the body
\* type it holds
ReadBack ==
    /\ codec.written.result = "Ok"
    /\ codec.read.result # "none"
    /\ codec.key = codec.secret
    /\ codec.expects = codec.packet.body.type

\* the body read is the body written: same type, same encoded contents in
\* the same order
SameBody ==
    /\ codec.read.body.type = codec.packet.body.type
    /\ codec.read.body.bytes = codec.packet.body.bytes

C14_ArgumentInvariants ==
    argument.some =>
        /\ argument.name.len > 0
        /\ ~argument.name.delimiter
        /\ argument.name.len + 1 + argument.value <= 255

\* the records written for the task of slot t, in the order written
RecordsOf(t) == records[t]

\* C15: the records of a task are one StartRecord, then WatchdogUpdates, then
\* at most one StopRecord with nothing after it; a task object exists only if
\* its StartRecord got a Success reply; every record of a task has the task's
\* task_id as its first argument
C15_TaskLifecycle ==
    \A t \in 1 .. MaxTasks :
        LET R == RecordsOf(t)
        IN  /\ \A i \in 1 .. Len(R) :
                  /\ R[i].flags = "StartRecord" <=> i = 1
                  /\ R[i].flags = "StopRecord" => i = Len(R)
                  /\ R[i].flags \in {"StartRecord", "WatchdogUpdate", "StopRecord"}
                  /\ R[i].first = [name |-> "task_id", value |-> R[1].first.value]
            /\ tasks[t].state \in {"held", "consumed"} =>
                  /\ R # <<>>
                  /\ R[1].reply = "Success"
                  /\ R[1].first.value = tasks[t].id

\* a task that was begun, updated and stopped, each with a record written
C15_Witness ==
    \E t \in 1 .. MaxTasks :
        /\ tasks[t].state = "consumed"
        /\ Len(RecordsOf(t)) >= 3
        /\ RecordsOf(t)[Len(RecordsOf(t))].flags = "StopRecord"

\* the sessions with packets on connection c: requests the server has not
\* answered, replies nobody has read, and what the session now using c has
\* written to it and read from it
ExchangingOn(c) ==
    {wire[c].out[i].hdr.sid : i \in 1 .. Len(wire[c].out)}
    \cup {wire[c].inbox[i].sid : i \in 1 .. Len(wire[c].inbox)}
    \cup {sess[p].sid : p \in {q \in Procs : sess[q].wroteOn = c}}
    \cup {sess[p].got.sid : p \in {q \in Procs : sess[q].readOn = c
                                                  /\ sess[q].got.sid # 0}}

\* C16: a session reads its response only after write_all and flush of its
\* request have returned; and on a connection in single connection mode one
\* session's request and reply are over before the next session's request is
\* written, so at no time has the connection packets of two sessions on it
C16_Ordering ==
    /\ \A p \in Procs :
          /\ pc[p] \in {"write", "flush"} => sess[p].readOn = 0
          /\ sess[p].readOn # 0 => sess[p].wroteOn # 0
    /\ \A c \in Conns :
          single_connection_established /\ connection = c
              => Cardinality(ExchangingOn(c)) <= 1

\* C17: every request packet written has sequence number 1 and
\* SINGLE_CONNECTION set, has UNENCRYPTED set exactly when the client has no
\* secret, and has minor version 1 for PAP and CHAP authentication and 0 for
\* authorization and accounting
C17_RequestHeader ==
    request.written.result # "none" =>
        LET buffer == request.written.buffer
        IN  /\ request.written.result = "Ok"
            /\ buffer[3] = 1
            /\ ((buffer[4] \div 4) % 2) = 1
            /\ (buffer[4] % 2) = 1 <=> ~request.secret.some
            /\ buffer[1] = 12 * 16 + (IF request.kind \in {"Pap", "Chap"} THEN 1 ELSE 0)

\* a CHAP start packet was written by a client with a secret
C17_Witness ==
    /\ request.kind = "Chap"
    /\ request.secret.some
    /\ request.written.result = "Ok"
    /\ request.written.buffer[1] = 193

\* the mutex, the held connection, the two flags, every connection's contents
\* and the factory's count are as they were
EngineUntouched ==
    UNCHANGED <<mutex, connection, first_session_completed,
                single_connection_established, wire, live, nextConn, started>>

\* the call on handle p returned e without having asked for the mutex
RefusedWith(p, e) ==
    /\ pc[p] = "return"
    /\ sess[p].result = e
    /\ sess[p].at = "idle"

\* a refused call never held the mutex, invoked the factory or wrote, and the
\* step that ends it changes nothing of the engine
RefusalsLeaveNoTrace(e) ==
    \A p \in Procs :
        RefusedWith(p, e) =>
            /\ mutex # p
            /\ sess[p].sid = 0 /\ sess[p].fcalls = 0 /\ sess[p].wroteOn = 0
            /\ pc'[p] # pc[p] => EngineUntouched

\* a PAP authenticate with a password of more than 255 bytes
LongPassword(input) == input.authentication_type = "Pap" /\ input.password > 255

\* C18 as stated: a PAP authenticate call with a password of more than 255
\* bytes returns PasswordTooLong without asking for the mutex: no factory call,
\* nothing written, connection and flags unchanged
C18_PasswordTooLong_AsStated ==
    [][/\ \A p \in Procs : \A input \in Inputs("authenticate") :
             LongPassword(input) /\ CallWith(p, "authenticate", input)
                 => /\ RefusedWith(p, "PasswordTooLong")'
                    /\ EngineUntouched
       /\ RefusalsLeaveNoTrace("PasswordTooLong")]_vars

\* C18: a PAP authenticate call with a password of more than 255 bytes
\* returns without asking for the mutex (no factory call, nothing written,
\* connection and flags unchanged), with PasswordTooLong when its context is
\* valid and with InvalidContext when it is not
C18_PasswordTooLong ==
    [][/\ \A p \in Procs : \A input \in Inputs("authenticate") :
             LongPassword(input) /\ CallWith(p, "authenticate", input)
                 => /\ RefusedWith(p, IF input.context_ok THEN "PasswordTooLong"
                                      ELSE "InvalidContext")'
                    /\ EngineUntouched
       /\ RefusalsLeaveNoTrace("PasswordTooLong")
       /\ RefusalsLeaveNoTrace("InvalidContext")]_vars

\* a call was refused with PasswordTooLong while the client held a connection
\* in single connection mode and the session of another handle was awaiting
\* its reply
C18_Witness ==
    \E p, q \in Procs :
        /\ RefusedWith(p, "PasswordTooLong")
        /\ connection # 0
        /\ single_connection_established
        /\ pc[q] = "read_header"

\* the caller passed more arguments than the call can take: more than 255 to
\* authorize, more than 253 to an accounting start, update or stop
OverLimit(k, input) ==
    IF k = "authorize" THEN input.arguments > 255 ELSE input.arguments > 253

C23_ReplySessionId ==
    \A p \in Procs :
        sess[p].reply # NoReply => sess[p].reply.sid = sess[p].sid

\* C24: whenever the mutex is free and the client holds no connection, both
\* first_session_completed and single_connection_established are false,
\* whatever the outcome of the sessions before, a failed close() included
C24_FlagsFalseWithoutConnection ==
    (mutex = 0 /\ connection = 0) =>
        ~first_session_completed /\ ~single_connection_established

\* the positions at which the session uses the connection that connection()
\* handed to it
UsesConnection == {"probe", "write", "flush", "read_header", "read_body"}

\* C26: post_session_cleanup is only reached while the client holds a
\* connection, so the take().unwrap() of its close branch never panics: at
\* every position between connection() and the cleanup the connection is
\* held, at the awaited close() the taken connection is in the local variable,
\* and no session ends by the panic
C26_CleanupHoldsConnection ==
    \A p \in Procs :
        /\ sess[p].result # "Panicked"
        /\ pc[p] \in {"sp_cleanup", "set_status", "cleanup"} => connection # 0
        /\ pc[p] \in UsesConnection => connection # 0
        /\ pc[p] \in {"sp_closing", "closing"} => sess[p].local # 0

\* a session whose probe found the connection closed took it in the cleanup
\* of send_packet, reconnected, and has reached the cleanup after its reply
C26_Witness ==
    \E p \in Procs :
        /\ pc[p] = "cleanup" /\ connection # 0
        /\ sess[p].probe \in {"eof", "reset"} /\ sess[p].reconnects = 1

\* the session on handle p ended on an Err of the connection factory
FactoryFailed(p) ==
    /\ pc[p] = "return" /\ sess[p].result = "IOError"
    /\ sess[p].at \in {"sp_factory", "snd_factory", "rcv_factory"}

\* the session on handle p returned the response made of the reply it accepted
Responded(p) ==
    /\ pc[p] = "return"
    /\ sess[p].reply # NoReply
    /\ sess[p].result = Respond(sess[p].kind, sess[p].reply.status)

\* C27: when the factory returns an I/O error the session returns IOError,
\* the client holds no connection and the flags are what they were when the
\* factory was invoked (the step changes none of the three fields), and the
\* guard is released with the return; the session after it invokes the
\* factory again
C27_FactoryError ==
    /\ [](\A p \in Procs :
            /\ FactoryFailed(p) =>
                  /\ connection = 0
                  /\ mutex = p /\ ENABLED Return(p)
                  /\ sess[p].at = "sp_factory" =>
                        /\ sess[p].startConn = 0
                        /\ single_connection_established = sess[p].startEst
                        /\ first_session_completed = sess[p].startFsc
            /\ (Follows(p) /\ prev.factoryFailed) =>
                  /\ sess[p].startConn = 0
                  /\ sess[p].fcalls >= 1)
    /\ [][\A p \in Procs :
            (pc[p] \in {"sp_factory", "snd_factory", "rcv_factory"}
               /\ pc'[p] = "return" /\ sess'[p].result = "IOError") =>
                /\ inner' = inner
                /\ mutex' = mutex
                /\ live' = live
         ]_vars

\* the session after one that ended on a factory error got a connection from
\* the factory and returned the response of its reply
C27_Witness ==
    \E p \in Procs :
        /\ Follows(p) /\ prev.factoryFailed
        /\ Responded(p)
        /\ sess[p].fcalls = 1 /\ sess[p].wroteOn # 0

\* C28: the liveness probe takes nothing out of the connection's inbound
\* stream: the unread packets are the same after it as before
C28_ProbeLeavesStream ==
    [][\A p \in Procs :
          (pc[p] = "probe" /\ pc'[p] # "probe") => wire' = wire]_vars

\* C30: first_session_completed implies single_connection_established
C30_CompletedImpliesEstablished ==
    first_session_completed => single_connection_established

\* a session has completed on a kept connection and the mutex is free
C30_Witness ==
    /\ mutex = 0 /\ connection # 0
    /\ first_session_completed /\ single_connection_established
    /\ prev.replied = "other"

\* the pad as the claim describes it: what xor_body_with_pad leaves in a body
\* of n zero bytes under a header that has the session id, version and
\* sequence number in common with pad.header
PadOf(header, n) == XorBodyWithPad(header, pad.key, [i \in 1 .. n |-> 0])

\* C21: for every header, key and body, xor_body_with_pad applied twice with
\* the same header and key gives back the body, and the pad it XORs in is
\* fixed by session id, key, version byte and sequence number: it is the same
\* for every body and under every value of the header's flags
C21_XorInvolution ==
    /\ pad.once.result # "none" =>
          /\ pad.once.result = "Ok"
          /\ Len(pad.once.buffer) = Len(pad.body)
          /\ \A header \in Headers :
                (/\ header.session_id = pad.header.session_id
                 /\ header.minor = pad.header.minor
                 /\ header.sequence_number = pad.header.sequence_number) =>
                    \A i \in 1 .. Len(pad.body) :
                        Xor(pad.once.buffer[i], pad.body[i])
                            = PadOf(header, Len(pad.body))[i]
    /\ pad.twice.result # "none" =>
          pad.twice.result = "Ok" /\ pad.twice.buffer = pad.body

\* C25: Packet::deserialize with a secret on a well-formed header with
\* UNENCRYPTED clear and no body byte returns UnexpectedEnd, as
\* deserialize_unobfuscated does on the same header with UNENCRYPTED set;
\* neither panics
C25_HeaderAlone ==
    /\ truncated.obfuscated.result # "none" =>
          truncated.obfuscated.result = "UnexpectedEnd"
    /\ truncated.unobfuscated.result # "none" =>
          truncated.unobfuscated.result = "UnexpectedEnd"

\* the positions of the buffer that hold '=' or '*'
Delimiters(buffer) ==
    {i \in 1 .. Len(buffer) :
        buffer[i] \in {MANDATORY_DELIMITER, OPTIONAL_DELIMITER}}

\* the earliest of them
FirstDelimiter(buffer) ==
    CHOOSE i \in Delimiters(buffer) : \A j \in Delimiters(buffer) : i <= j

\* C22: decoding takes the first '=' or '*' of the buffer as the delimiter:
\* without one it fails with NoDelimiter; with one it never does, a decoded
\* Argument has everything before that position as its name, everything after
\* it (later delimiter characters included) as its value and is mandatory iff
\* the byte there is '=', and decoding succeeds whenever that name is not
\* empty and name and value are printable
C22_FirstDelimiter ==
    LET buffer == encoding.buffer
        decoded == encoding.decoded
    IN  decoded.result # "none" =>
            IF Delimiters(buffer) = {}
            THEN decoded.result = "NoDelimiter"
            ELSE LET d == FirstDelimiter(buffer)
                 IN  /\ decoded.result # "NoDelimiter"
                     /\ decoded.result = "Ok" =>
                           /\ decoded.argument.name = SubSeq(buffer, 1, d - 1)
                           /\ decoded.argument.value = SubSeq(buffer, d + 1, Len(buffer))
                           /\ decoded.argument.mandatory
                                  = (buffer[d] = MANDATORY_DELIMITER)
                     /\ (d > 1 /\ IsPrintableAscii(buffer) /\ Len(buffer) <= 255) =>
                           decoded.result = "Ok"

\* received bytes with a '*' before a '=' were decoded into an optional
\* Argument whose value holds the '='
C22_Witness ==
    /\ ~encoding.some
    /\ encoding.decoded.result = "Ok"
    /\ ~encoding.decoded.argument.mandatory
    /\ ContainsAny(encoding.decoded.argument.value, {MANDATORY_DELIMITER})
    /\ Position(encoding.buffer, OPTIONAL_DELIMITER)
           < Position(encoding.buffer, MANDATORY_DELIMITER)

\* C29: deserializing the bytes that serializing an Argument accepted by
\* Argument::new wrote gives an Argument with the same name, value and
\* mandatory flag
C29_ArgumentRoundTrip ==
    (encoding.some /\ encoding.decoded.result # "none") =>
        /\ encoding.decoded.result = "Ok"
        /\ encoding.decoded.argument = encoding.argument

\* an optional Argument whose value holds delimiter characters, and one of
\* the greatest encoded length, came back as they were
C29_Witness ==
    /\ encoding.some
    /\ encoding.decoded.result = "Ok"
    /\ ~encoding.argument.mandatory
    /\ \/ ContainsAny(encoding.argument.value,
                      {MANDATORY_DELIMITER, OPTIONAL_DELIMITER})
       \/ Len(encoding.buffer) = 255
====
